---- MODULE Spec2Model ----
(***************************************************************************)
(* Model of playlist-manager.py: a console menu loop over one in-memory    *)
(* list of Song records that is rewritten in full to songs.json after      *)
(* every mutation.  Text is modelled as a sequence of one-character        *)
(* strings, so that strip(), lower(), len(), str(), int() and the JSON     *)
(* encoding are computed character by character.                           *)
(***************************************************************************)
EXTENDS Integers, Sequences, FiniteSets, TLC

VARIABLES
    songs,    \* main(): the in-memory list of Song records
    file,     \* DATA_FILE: [exists, data]; data is the JSON array on disk
    pc,       \* the input() call the program is blocked in, or start/exited
    title,    \* local `title` of add_song / edit_song / delete_song
    artist,   \* local `artist` of add_song / edit_song / delete_song
    inp,      \* the line (or interrupt) most recently delivered to input()
    out       \* what the most recent step printed

vars == <<songs, file, pc, title, artist, inp, out>>

----------------------------------------------------------------------------
(* Bounds of the model *)

\* add_song is not entered once the list is this long
MaxSongs == 6

----------------------------------------------------------------------------
(* Constants of the program *)

MIN_TITLE_LEN == 1
MAX_TITLE_LEN == 90

SAMPLE_DATA ==
 << << <<"S","h","a","p","e"," ","o","f"," ","Y","o","u">>,
       <<"E","d"," ","S","h","e","e","r","a","n">>, 1560 >>,
    << <<"B","l","i","n","d","i","n","g"," ","L","i","g","h","t","s">>,
       <<"T","h","e"," ","W","e","e","k","n","d">>, 1780 >>,
    << <<"B","a","d"," ","G","u","y">>,
       <<"B","i","l","l","i","e"," ","E","i","l","i","s","h">>, 1340 >>,
    << <<"D","a","n","c","e"," ","M","o","n","k","e","y">>,
       <<"T","o","n","e","s"," ","a","n","d"," ","I">>, 1120 >>,
    << <<"L","e","v","i","t","a","t","i","n","g">>,
       <<"D","u","a"," ","L","i","p","a">>, 980 >> >>

----------------------------------------------------------------------------
(* Characters and strings *)

UpperCase ==
  <<"A","B","C","D","E","F","G","H","I","J","K","L","M",
    "N","O","P","Q","R","S","T","U","V","W","X","Y","Z">>

LowerCase ==
  <<"a","b","c","d","e","f","g","h","i","j","k","l","m",
    "n","o","p","q","r","s","t","u","v","w","x","y","z">>

Digits == <<"0","1","2","3","4","5","6","7","8","9">>

Whitespace == {" ", "\t"}

IndexOf(seq, c) ==
    IF \E i \in 1..Len(seq) : seq[i] = c
    THEN CHOOSE i \in 1..Len(seq) : seq[i] = c
    ELSE 0

lower_char(c) ==
    IF IndexOf(UpperCase, c) # 0 THEN LowerCase[IndexOf(UpperCase, c)] ELSE c

\* str.lower()
lower(s) == [i \in 1..Len(s) |-> lower_char(s[i])]

\* str.lstrip(): drop the leading run of whitespace
lstrip(s) ==
    LET k == CHOOSE i \in 1..(Len(s) + 1) :
                 /\ i = Len(s) + 1 \/ s[i] \notin Whitespace
                 /\ \A j \in 1..(i - 1) : s[j] \in Whitespace
    IN  SubSeq(s, k, Len(s))

\* str.rstrip(): drop the trailing run of whitespace
rstrip(s) ==
    LET k == CHOOSE i \in 0..Len(s) :
                 /\ i = 0 \/ s[i] \notin Whitespace
                 /\ \A j \in (i + 1)..Len(s) : s[j] \in Whitespace
    IN  SubSeq(s, 1, k)

\* str.strip()
strip(s) == rstrip(lstrip(s))

\* str(n) of a non-negative int: its decimal digits
RECURSIVE str(_)
str(n) ==
    IF n < 10 THEN <<Digits[n + 1]>>
    ELSE Append(str(n \div 10), Digits[(n % 10) + 1])

\* int(txt) of a string of decimal digits
RECURSIVE int(_)
int(txt) ==
    IF txt = <<>> THEN 0
    ELSE 10 * int(SubSeq(txt, 1, Len(txt) - 1))
           + (IndexOf(Digits, txt[Len(txt)]) - 1)

\* VALID_INT_PATTERN = ^\d+$
VALID_INT_PATTERN(txt) ==
    /\ Len(txt) >= 1
    /\ \A i \in 1..Len(txt) : IndexOf(Digits, txt[i]) # 0

Rep(c, n) == [i \in 1..n |-> c]

----------------------------------------------------------------------------
(* Song and the JSON file *)

\* Song(title, artist, plays)
Song(t, a, p) == [title |-> t, artist |-> a, plays |-> p]

\* Song.to_row
to_row(s) == <<s.title, s.artist, str(s.plays)>>

\* json string token body: " and \ each preceded by a backslash, any other
\* character copied
RECURSIVE json_escape_from(_)
json_escape_from(s) ==
    IF s = <<>> THEN <<>>
    ELSE IF Head(s) \in {"\"", "\\"}
         THEN <<"\\", Head(s)>> \o json_escape_from(Tail(s))
         ELSE <<Head(s)>> \o json_escape_from(Tail(s))

\* variant of json_escape: no character is escaped
json_escape_none(s) == s

json_escape(s) ==
    IF \A i \in 1..Len(s) : s[i] \notin {"\"", "\\"}
    THEN s
    ELSE json_escape_from(s)

\* json.load on a string token, after its opening quote: characters up to
\* the first quote that is not escaped, each escape giving its character
RECURSIVE json_scan_from(_)
json_scan_from(s) ==
    IF s = <<>> \/ Head(s) = "\"" THEN <<>>
    ELSE IF Head(s) = "\\" /\ Len(s) >= 2
         THEN <<s[2]>> \o json_scan_from(Tail(Tail(s)))
         ELSE <<Head(s)>> \o json_scan_from(Tail(s))

json_scan(s) ==
    IF \A i \in 1..Len(s) : s[i] # "\\"
    THEN LET close == CHOOSE k \in 1..(Len(s) + 1) :
                          /\ k = Len(s) + 1 \/ s[k] = "\""
                          /\ \A j \in 1..(k - 1) : s[j] # "\""
         IN  SubSeq(s, 1, close - 1)
    ELSE json_scan_from(s)

json_string(s) == <<"\"">> \o json_escape(s) \o <<"\"">>

\* the text json.dump writes for a value: a string token or a number token
json_token(v, isText) == IF isText THEN json_string(v) ELSE str(v)

\* the value json.load reads from a token
json_value(tok) ==
    IF Head(tok) = "\"" THEN json_scan(Tail(tok)) ELSE int(tok)

\* asdict(s) as written by json.dump: the members in field order
asdict(s) ==
    << <<"title",  json_token(s.title, TRUE)>>,
       <<"artist", json_token(s.artist, TRUE)>>,
       <<"plays",  json_token(s.plays, FALSE)>> >>

\* the dict json.load builds from one object: member lookup by key
json_get(obj, key) ==
    json_value(obj[CHOOSE i \in 1..Len(obj) : obj[i][1] = key][2])

\* Song.from_dict: cls(**data)
from_dict(obj) ==
    Song(json_get(obj, "title"), json_get(obj, "artist"),
         json_get(obj, "plays"))

\* save_songs: the file content after the rewrite
save_songs(ss) ==
    [exists |-> TRUE, data |-> [i \in 1..Len(ss) |-> asdict(ss[i])]]

\* load_songs: the list returned and the file left behind
load_songs(f) ==
    IF f.exists
    THEN [songs |-> [i \in 1..Len(f.data) |-> from_dict(f.data[i])],
          file  |-> f]
    ELSE LET ss == [i \in 1..Len(SAMPLE_DATA) |->
                       Song(SAMPLE_DATA[i][1], SAMPLE_DATA[i][2],
                            SAMPLE_DATA[i][3])]
         IN  [songs |-> ss, file |-> save_songs(ss)]

----------------------------------------------------------------------------
(* Input validation and lookup *)

\* variant of validate_text: upper length limit off by one
validate_text_wide(raw) ==
    LET txt == strip(raw)
    IN  IF MIN_TITLE_LEN <= Len(txt) /\ Len(txt) <= MAX_TITLE_LEN + 1
        THEN [ok |-> TRUE, val |-> txt]
        ELSE [ok |-> FALSE, val |-> <<>>]

\* one iteration of validate_text's loop on the line raw
validate_text(raw) ==
    LET txt == strip(raw)
    IN  IF MIN_TITLE_LEN <= Len(txt) /\ Len(txt) <= MAX_TITLE_LEN
        THEN [ok |-> TRUE, val |-> txt]
        ELSE [ok |-> FALSE, val |-> <<>>]

\* one iteration of validate_int's loop on the line raw
validate_int(raw) ==
    LET txt == strip(raw)
    IN  IF VALID_INT_PATTERN(txt)
        THEN [ok |-> TRUE, val |-> int(txt)]
        ELSE [ok |-> FALSE, val |-> 0]

NoSong == 0

\* variant of find_from: the last matching song instead of the first
find_from_last(ss, i, t, a) ==
    LET hits == { n \in i..Len(ss) :
                    lower(ss[n].title) = t /\ lower(ss[n].artist) = a }
    IN  IF hits = {} THEN NoSong
        ELSE CHOOSE n \in hits : \A o \in hits : o <= n

\* find_song: the position of the Song object returned, NoSong for None
RECURSIVE find_from(_, _, _, _)
find_from(ss, i, t, a) ==
    IF i > Len(ss) THEN NoSong
    ELSE IF lower(ss[i].title) = t /\ lower(ss[i].artist) = a THEN i
    ELSE find_from(ss, i + 1, t, a)

\* variant of find_song: comparison without lower()
find_song_exact(ss, t, a) ==
    IF \E n \in 1..Len(ss) : ss[n].title = t /\ ss[n].artist = a
    THEN CHOOSE n \in 1..Len(ss) :
             /\ ss[n].title = t /\ ss[n].artist = a
             /\ \A o \in 1..(n - 1) : ~(ss[o].title = t /\ ss[o].artist = a)
    ELSE NoSong

find_song(ss, t, a) == find_from(ss, 1, lower(t), lower(a))

\* list.remove(x): drops the first element equal to x
RECURSIVE list_remove(_, _)
list_remove(ss, x) ==
    IF ss = <<>> THEN <<>>
    ELSE IF Head(ss) = x THEN Tail(ss)
    ELSE <<Head(ss)>> \o list_remove(Tail(ss), x)

\* variant of filtered: > in place of >=
RECURSIVE filtered_strict(_, _)
filtered_strict(ss, min_plays) ==
    IF ss = <<>> THEN <<>>
    ELSE IF Head(ss).plays > min_plays
         THEN <<Head(ss)>> \o filtered_strict(Tail(ss), min_plays)
         ELSE filtered_strict(Tail(ss), min_plays)

\* [s for s in songs if s.plays >= min_plays]
RECURSIVE filtered(_, _)
filtered(ss, min_plays) ==
    IF ss = <<>> THEN <<>>
    ELSE IF Head(ss).plays >= min_plays
         THEN <<Head(ss)>> \o filtered(Tail(ss), min_plays)
         ELSE filtered(Tail(ss), min_plays)

----------------------------------------------------------------------------
(* Console output of one step *)

NoNum == -1

Out(m, n, r) == [msg |-> m, num |-> n, rows |-> r]

Msg(m) == Out(m, NoNum, <<>>)

\* display_songs
display_songs(ss) ==
    IF ss = <<>> THEN Msg("empty")
    ELSE Out("table", NoNum, [i \in 1..Len(ss) |-> to_row(ss[i])])

----------------------------------------------------------------------------
(* Console input explored by the model *)

BadGuy == <<"B","a","d"," ","G","u","y">>
BillieEilish == <<"B","i","l","l","i","e"," ","E","i","l","i","s","h">>

EmptyLine  == <<>>
BlankLine  == <<" ", "\t">>
TooLong    == Rep("a", MAX_TITLE_LEN + 1)
LongestPad == <<" ">> \o Rep("a", MAX_TITLE_LEN) \o <<"\t">>

\* lines typed at a title prompt
TitleInputs ==
    { EmptyLine, BlankLine, TooLong, LongestPad,
      <<"b","a","d"," ","g","u","y">>,
      <<" ">> \o BadGuy }

\* lines typed at an artist prompt
ArtistInputs ==
    { EmptyLine, TooLong,
      <<"B","I","L","L","I","E"," ","E","I","L","I","S","H"," ">> }

\* lines typed at a play-count or threshold prompt
IntInputs ==
    { EmptyLine, <<"-","1">>, <<"1",".","5">>,
      <<" ","0","0","7"," ">>, <<"0">>, <<"1","3","4","0">> }

\* lines typed at the menu
MenuInputs ==
    { <<"1">>, <<"2">>, <<"3">>, <<"4">>, <<"5">>, <<"6">>,
      <<" ","1"," ">>, <<"7">>, EmptyLine }

\* delivered to input() instead of a line
KeyboardInterrupt == <<"KeyboardInterrupt">>

\* a songs.json edited by hand: members in another order, a title with a
\* quote and a backslash, and two records whose keys differ only in case
HandEdited ==
    << << <<"plays",  str(7)>>,
          <<"artist", json_string(<<"x">>)>>,
          <<"title",  json_string(<<"\"", "\\">>)>> >>,
       << <<"title",  json_string(BadGuy)>>,
          <<"artist", json_string(BillieEilish)>>,
          <<"plays",  str(1340)>> >>,
       << <<"artist", json_string(lower(BillieEilish))>>,
          <<"title",  json_string(lower(BadGuy))>>,
          <<"plays",  str(0)>> >> >>

\* songs.json as found at start-up: absent, an empty array, or HandEdited
InitialFiles ==
    { [exists |-> FALSE, data |-> <<>>],
      [exists |-> TRUE,  data |-> <<>>],
      [exists |-> TRUE,  data |-> HandEdited] }

----------------------------------------------------------------------------
(* The program *)

Prompts ==
    { "menu", "add_title", "add_artist", "add_plays",
      "edit_title", "edit_artist", "edit_plays",
      "del_title", "del_artist", "gen_min" }

Init ==
    /\ songs = <<>>
    /\ file \in InitialFiles
    /\ pc = "start"
    /\ title = <<>>
    /\ artist = <<>>
    /\ inp = <<>>
    /\ out = Msg("none")

\* main(): songs = load_songs(), then the first menu prompt
main_load ==
    /\ pc = "start"
    /\ songs' = load_songs(file).songs
    /\ file' = load_songs(file).file
    /\ pc' = "menu"
    /\ out' = Msg("menu")
    /\ UNCHANGED <<title, artist, inp>>

\* main(): one pass of the menu loop up to the next input() call
main_menu ==
    /\ pc = "menu"
    /\ \E raw \in MenuInputs :
         LET choice == strip(raw)
         IN  /\ inp' = raw
             /\ CASE choice = <<"1">> ->
                       /\ out' = display_songs(songs)
                       /\ pc' = "menu"
                  [] choice = <<"2">> ->
                       /\ Len(songs) < MaxSongs
                       /\ out' = Msg("add")
                       /\ pc' = "add_title"
                  [] choice = <<"3">> ->
                       /\ out' = Msg("edit")
                       /\ pc' = "edit_title"
                  [] choice = <<"4">> ->
                       /\ out' = Msg("delete")
                       /\ pc' = "del_title"
                  [] choice = <<"5">> ->
                       /\ out' = Msg("generate")
                       /\ pc' = "gen_min"
                  [] choice = <<"6">> ->
                       /\ out' = Msg("bye")
                       /\ pc' = "exited"
                  [] OTHER ->
                       /\ out' = Msg("invalid_choice")
                       /\ pc' = "menu"
    /\ UNCHANGED <<songs, file, title, artist>>

\* title = validate_text(...) in add_song, edit_song and delete_song
ask_title(here, next) ==
    /\ pc = here
    /\ \E raw \in TitleInputs :
         LET r == validate_text(raw)
         IN  /\ inp' = raw
             /\ IF r.ok
                THEN /\ title' = r.val
                     /\ out' = Msg("none")
                     /\ pc' = next
                ELSE /\ out' = Msg("bad_length")
                     /\ UNCHANGED <<title, pc>>
    /\ UNCHANGED <<songs, file, artist>>

add_song_title == ask_title("add_title", "add_artist")

edit_song_title == ask_title("edit_title", "edit_artist")

delete_song_title == ask_title("del_title", "del_artist")

\* variant of add_song_artist: no duplicate check
add_song_artist_unchecked ==
    /\ pc = "add_artist"
    /\ \E raw \in ArtistInputs :
         LET r == validate_text(raw)
         IN  /\ inp' = raw
             /\ IF ~r.ok
                THEN /\ out' = Msg("bad_length")
                     /\ UNCHANGED <<title, artist, pc>>
                ELSE /\ out' = Msg("none")
                     /\ artist' = r.val
                     /\ pc' = "add_plays"
                     /\ UNCHANGED title
    /\ UNCHANGED <<songs, file>>

\* variant of add_song_artist: the song is appended and saved with zero
\* plays before the play count is asked for
add_song_artist_eager ==
    /\ pc = "add_artist"
    /\ \E raw \in ArtistInputs :
         LET r == validate_text(raw)
         IN  /\ inp' = raw
             /\ IF ~r.ok
                THEN /\ out' = Msg("bad_length")
                     /\ UNCHANGED <<songs, file, title, artist, pc>>
                ELSE IF find_song(songs, title, r.val) # NoSong
                THEN /\ out' = Msg("exists")
                     /\ title' = <<>>
                     /\ artist' = <<>>
                     /\ pc' = "menu"
                     /\ UNCHANGED <<songs, file>>
                ELSE /\ out' = Msg("none")
                     /\ artist' = r.val
                     /\ songs' = Append(songs, Song(title, r.val, 0))
                     /\ file' = save_songs(songs')
                     /\ pc' = "add_plays"
                     /\ UNCHANGED title

\* add_song: artist prompt, then the duplicate check
add_song_artist ==
    /\ pc = "add_artist"
    /\ \E raw \in ArtistInputs :
         LET r == validate_text(raw)
         IN  /\ inp' = raw
             /\ IF ~r.ok
                THEN /\ out' = Msg("bad_length")
                     /\ UNCHANGED <<title, artist, pc>>
                ELSE IF find_song(songs, title, r.val) # NoSong
                THEN /\ out' = Msg("exists")
                     /\ title' = <<>>
                     /\ artist' = <<>>
                     /\ pc' = "menu"
                ELSE /\ out' = Msg("none")
                     /\ artist' = r.val
                     /\ pc' = "add_plays"
                     /\ UNCHANGED title
    /\ UNCHANGED <<songs, file>>

\* add_song: play-count prompt, append, save
add_song_plays ==
    /\ pc = "add_plays"
    /\ \E raw \in IntInputs :
         LET r == validate_int(raw)
         IN  /\ inp' = raw
             /\ IF ~r.ok
                THEN /\ out' = Msg("need_int")
                     /\ UNCHANGED <<songs, file, title, artist, pc>>
                ELSE /\ songs' = Append(songs, Song(title, artist, r.val))
                     /\ file' = save_songs(songs')
                     /\ out' = Msg("added")
                     /\ title' = <<>>
                     /\ artist' = <<>>
                     /\ pc' = "menu"

\* variant of edit_song_artist: no return after the not-found message
edit_song_artist_no_return ==
    /\ pc = "edit_artist"
    /\ \E raw \in ArtistInputs :
         LET r == validate_text(raw)
         IN  /\ inp' = raw
             /\ IF ~r.ok
                THEN /\ out' = Msg("bad_length")
                     /\ UNCHANGED <<title, artist, pc>>
                ELSE /\ out' = IF find_song(songs, title, r.val) = NoSong
                               THEN Msg("not_found")
                               ELSE Out("current_plays",
                                 songs[find_song(songs, title, r.val)].plays,
                                 <<>>)
                     /\ artist' = r.val
                     /\ pc' = "edit_plays"
                     /\ UNCHANGED title
    /\ UNCHANGED <<songs, file>>

\* edit_song: artist prompt, then the lookup
edit_song_artist ==
    /\ pc = "edit_artist"
    /\ \E raw \in ArtistInputs :
         LET r == validate_text(raw)
         IN  /\ inp' = raw
             /\ IF ~r.ok
                THEN /\ out' = Msg("bad_length")
                     /\ UNCHANGED <<title, artist, pc>>
                ELSE IF find_song(songs, title, r.val) = NoSong
                THEN /\ out' = Msg("not_found")
                     /\ title' = <<>>
                     /\ artist' = <<>>
                     /\ pc' = "menu"
                ELSE /\ out' = Out("current_plays",
                              songs[find_song(songs, title, r.val)].plays,
                              <<>>)
                     /\ artist' = r.val
                     /\ pc' = "edit_plays"
                     /\ UNCHANGED title
    /\ UNCHANGED <<songs, file>>

\* variant of edit_song_plays: no save_songs call
edit_song_plays_unsaved ==
    /\ pc = "edit_plays"
    /\ \E raw \in IntInputs :
         LET r == validate_int(raw)
             k == find_song(songs, title, artist)
         IN  /\ inp' = raw
             /\ IF ~r.ok
                THEN /\ out' = Msg("need_int")
                     /\ UNCHANGED <<songs, file, title, artist, pc>>
                ELSE /\ songs' = [songs EXCEPT ![k].plays = r.val]
                     /\ out' = Msg("edited")
                     /\ title' = <<>>
                     /\ artist' = <<>>
                     /\ pc' = "menu"
                     /\ UNCHANGED file

\* variant of edit_song_plays: the found Song is replaced by a new Song
\* built from the title and artist as typed
edit_song_plays_rebuild ==
    /\ pc = "edit_plays"
    /\ \E raw \in IntInputs :
         LET r == validate_int(raw)
             k == find_song(songs, title, artist)
         IN  /\ inp' = raw
             /\ IF ~r.ok
                THEN /\ out' = Msg("need_int")
                     /\ UNCHANGED <<songs, file, title, artist, pc>>
                ELSE /\ songs' = [songs EXCEPT ![k] = Song(title, artist, r.val)]
                     /\ file' = save_songs(songs')
                     /\ out' = Msg("edited")
                     /\ title' = <<>>
                     /\ artist' = <<>>
                     /\ pc' = "menu"

\* edit_song: new play count, assignment to the found Song, save
edit_song_plays ==
    /\ pc = "edit_plays"
    /\ \E raw \in IntInputs :
         LET r == validate_int(raw)
             k == find_song(songs, title, artist)
         IN  /\ inp' = raw
             /\ IF ~r.ok
                THEN /\ out' = Msg("need_int")
                     /\ UNCHANGED <<songs, file, title, artist, pc>>
                ELSE /\ songs' = [songs EXCEPT ![k].plays = r.val]
                     /\ file' = save_songs(songs')
                     /\ out' = Msg("edited")
                     /\ title' = <<>>
                     /\ artist' = <<>>
                     /\ pc' = "menu"

\* delete_song: artist prompt, lookup, remove, save
delete_song_artist ==
    /\ pc = "del_artist"
    /\ \E raw \in ArtistInputs :
         LET r == validate_text(raw)
             k == find_song(songs, title, r.val)
         IN  /\ inp' = raw
             /\ IF ~r.ok
                THEN /\ out' = Msg("bad_length")
                     /\ UNCHANGED <<songs, file, title, artist, pc>>
                ELSE IF k = NoSong
                THEN /\ out' = Msg("not_found")
                     /\ title' = <<>>
                     /\ pc' = "menu"
                     /\ UNCHANGED <<songs, file, artist>>
                ELSE /\ songs' = list_remove(songs, songs[k])
                     /\ file' = save_songs(songs')
                     /\ out' = Msg("deleted")
                     /\ title' = <<>>
                     /\ pc' = "menu"
                     /\ UNCHANGED artist

\* generate_playlist
generate_playlist ==
    /\ pc = "gen_min"
    /\ \E raw \in IntInputs :
         LET r == validate_int(raw)
             f == filtered(songs, r.val)
         IN  /\ inp' = raw
             /\ IF ~r.ok
                THEN /\ out' = Msg("need_int")
                     /\ pc' = pc
                ELSE IF f = <<>>
                THEN /\ out' = Msg("no_match")
                     /\ pc' = "menu"
                ELSE /\ out' = Out("playlist", r.val, display_songs(f).rows)
                     /\ pc' = "menu"
    /\ UNCHANGED <<songs, file, title, artist>>

\* except KeyboardInterrupt: raised out of whichever input() is waiting
interrupt ==
    /\ pc \in Prompts
    /\ inp' = KeyboardInterrupt
    /\ out' = Msg("terminated")
    /\ pc' = "exited"
    /\ UNCHANGED <<songs, file, title, artist>>

Next ==
    \/ main_load
    \/ main_menu
    \/ add_song_title
    \/ add_song_artist
    \/ add_song_plays
    \/ edit_song_title
    \/ edit_song_artist
    \/ edit_song_plays
    \/ delete_song_title
    \/ delete_song_artist
    \/ generate_playlist
    \/ interrupt

Spec == Init /\ [][Next]_vars

----------------------------------------------------------------------------
(* save_songs followed by load_songs, on lists drawn from a bounded set *)

\* longest list saved and loaded back
MaxRoundTripLen == 2

RoundTripTitles == { <<"\"", "\\">>, <<"a", "\\", "\"", "b">>, BadGuy }

RoundTripArtists == { <<"x">>, BillieEilish }

RoundTripPlays == { 0, 7, 1340 }

RoundTripSongs ==
    { Song(t, a, p) : t \in RoundTripTitles, a \in RoundTripArtists,
                      p \in RoundTripPlays }

RoundTripLists ==
    UNION { [1..n -> RoundTripSongs] : n \in 0..MaxRoundTripLen }

InitRoundTrip ==
    /\ songs \in RoundTripLists
    /\ file = [exists |-> FALSE, data |-> <<>>]
    /\ pc = "save"
    /\ title = <<>>
    /\ artist = <<>>
    /\ inp = <<>>
    /\ out = Msg("none")

round_trip_save ==
    /\ pc = "save"
    /\ file' = save_songs(songs)
    /\ pc' = "load"
    /\ UNCHANGED <<songs, title, artist, inp, out>>

round_trip_load ==
    /\ pc = "load"
    /\ songs' = load_songs(file).songs
    /\ file' = load_songs(file).file
    /\ pc' = "loaded"
    /\ UNCHANGED <<title, artist, inp, out>>

NextRoundTrip ==
    \/ round_trip_save
    \/ round_trip_load

SpecRoundTrip == InitRoundTrip /\ [][NextRoundTrip]_vars

----------------------------------------------------------------------------
(* Vocabulary of the properties *)

\* two characters that are equal or the two cases of one letter
SameLetter(c1, c2) ==
    \/ c1 = c2
    \/ \E u \in 1..Len(UpperCase) : {c1, c2} = {UpperCase[u], LowerCase[u]}

\* two texts that are equal ignoring letter case
EqIgnoreCase(x, y) ==
    /\ Len(x) = Len(y)
    /\ \A e \in 1..Len(x) : SameLetter(x[e], y[e])

\* positions of the songs whose key is (w, x) ignoring letter case
Matches(ss, w, x) ==
    { m \in 1..Len(ss) : /\ EqIgnoreCase(ss[m].title, w)
                         /\ EqIgnoreCase(ss[m].artist, x) }

FirstMatch(ss, w, x) ==
    CHOOSE fm \in Matches(ss, w, x) : \A fo \in Matches(ss, w, x) : fm <= fo

\* no two songs of the list share a key
UniqueKeys(ss) ==
    \A p, q \in 1..Len(ss) :
        p < q => q \notin Matches(ss, ss[p].title, ss[p].artist)

\* the records a reader of the file finds in it
FileRecords(f) == [fr \in 1..Len(f.data) |-> from_dict(f.data[fr])]

\* the file exists and holds the records of ss, in order
FileHolds(f, ss) ==
    /\ f.exists
    /\ Len(f.data) = Len(ss)
    /\ \A h \in 1..Len(ss) :
         /\ json_get(f.data[h], "title") = ss[h].title
         /\ json_get(f.data[h], "artist") = ss[h].artist
         /\ json_get(f.data[h], "plays") = ss[h].plays

FieldBounds(r) ==
    /\ Len(r.title) \in 1..90
    /\ Len(r.artist) \in 1..90
    /\ r.plays \in Nat

AllInBounds(ss) == \A b \in 1..Len(ss) : FieldBounds(ss[b])

\* a line was typed (input() was not interrupted)
Typed == inp' # KeyboardInterrupt

\* a line that is no acceptable title or artist
BadText(raw) == Len(strip(raw)) < 1 \/ Len(strip(raw)) > 90

\* a line that is not a non-negative integer
BadInt(raw) ==
    \/ strip(raw) = <<>>
    \/ \E d \in 1..Len(strip(raw)) :
         strip(raw)[d] \notin {"0","1","2","3","4","5","6","7","8","9"}

TextPrompts ==
    { "add_title", "add_artist", "edit_title", "edit_artist",
      "del_title", "del_artist" }

IntPrompts == { "add_plays", "edit_plays", "gen_min" }

----------------------------------------------------------------------------
(* Properties *)

\* C1: whenever the program waits for console input, songs.json exists and
\* holds exactly the records of the in-memory list, with the same field
\* values, in the same order.
C1_FileMirrorsList == pc \in Prompts => FileHolds(file, songs)

C1_Witness ==
    /\ pc = "menu"
    /\ out.msg = "added"
    /\ Len(songs) > Len(SAMPLE_DATA)
    /\ FileHolds(file, songs)

\* C2: when the title and artist given to add_song equal, ignoring letter
\* case, those of a song already in the list, the step reports "exists",
\* returns to the menu without asking for a play count, and changes neither
\* the list nor the file.
C2_DuplicateRejected ==
    [][ ( /\ pc = "add_artist"
          /\ Typed
          /\ ~BadText(inp')
          /\ Matches(songs, title, strip(inp')) # {} )
        => ( /\ out'.msg = "exists"
             /\ pc' = "menu"
             /\ songs' = songs
             /\ file' = file ) ]_vars

C2_Witness ==
    /\ pc = "menu"
    /\ out.msg = "exists"
    /\ songs # <<>>

\* C3: when the title and artist given to edit_song or delete_song match no
\* song ignoring letter case, the step reports "not found", returns to the
\* menu without asking for a play count, and changes neither the list nor
\* the file.
C3_NotFoundNoMutation ==
    [][ ( /\ pc \in {"edit_artist", "del_artist"}
          /\ Typed
          /\ ~BadText(inp')
          /\ Matches(songs, title, strip(inp')) = {} )
        => ( /\ out'.msg = "not_found"
             /\ pc' = "menu"
             /\ songs' = songs
             /\ file' = file ) ]_vars

C3_Witness ==
    /\ pc = "menu"
    /\ out.msg = "not_found"
    /\ songs # <<>>
    /\ FileHolds(file, songs)

\* C4: for a valid threshold, generate_playlist shows the rows of exactly
\* the songs with plays >= threshold, in list order; it reports "no match"
\* exactly when there is no such song; list and file are unchanged.
C4_FilterExact ==
    [][ ( pc = "gen_min" /\ Typed /\ ~BadInt(inp') )
        => \A shown \in {out'} :
           LET thr  == int(strip(inp'))
               keep == { g \in 1..Len(songs) : songs[g].plays >= thr }
               nth(k4) == CHOOSE g1 \in keep :
                              Cardinality({ g2 \in keep : g2 <= g1 }) = k4
           IN  /\ pc' = "menu"
               /\ songs' = songs
               /\ file' = file
               /\ (keep = {}) <=> (shown.msg = "no_match")
               /\ keep # {} =>
                    /\ shown.msg = "playlist"
                    /\ shown.num = thr
                    /\ Len(shown.rows) = Cardinality(keep)
                    /\ \A g3 \in 1..Len(shown.rows) :
                         shown.rows[g3] = to_row(songs[nth(g3)]) ]_vars

C4_Witness ==
    /\ out.msg = "playlist"
    /\ Len(out.rows) < Len(songs)
    /\ \E w4 \in 1..Len(songs) : songs[w4].plays = out.num
    /\ \E v4 \in 1..Len(songs) : songs[v4].plays < out.num

\* C5: save_songs followed by load_songs yields a list of the same length
\* whose records have the same title, artist and plays in the same order,
\* and load_songs leaves an existing file as it was.
C5_RoundTrip ==
    [][ pc = "load"
        => \A back \in {songs'} :
             /\ Len(back) = Len(songs)
             /\ \A r5 \in 1..Len(songs) :
                  /\ back[r5].title = songs[r5].title
                  /\ back[r5].artist = songs[r5].artist
                  /\ back[r5].plays = songs[r5].plays
             /\ file' = file ]_vars

C5_Witness ==
    /\ pc = "loaded"
    /\ Len(songs) = 2
    /\ songs[1].title = <<"a", "\\", "\"", "b">>
    /\ songs[2].plays = 1340
    /\ file.exists

\* C6: key uniqueness is preserved: the list made from the sample data, or
\* loaded from a file with unique keys, has unique keys, and every step
\* from a list with unique keys leaves a list and a file with unique keys.
C6_KeyUniqueness ==
    [][ \A after \in {songs'} : \A disk \in {file'} :
        /\ ( pc = "start" /\ (~file.exists \/ UniqueKeys(FileRecords(file))) )
           => ( UniqueKeys(after) /\ UniqueKeys(FileRecords(disk)) )
        /\ ( pc # "start" /\ UniqueKeys(songs) )
           => ( UniqueKeys(after) /\ UniqueKeys(FileRecords(disk)) ) ]_vars

C6_Witness ==
    /\ pc = "menu"
    /\ out.msg = "added"
    /\ UniqueKeys(songs)
    /\ \E w6 \in 1..Len(songs) : songs[w6].title = lower(BadGuy)

\* C7: field bounds are preserved: the sample data are in bounds, every
\* step from a list in bounds leaves a list in bounds, and a line outside
\* the bounds only repeats the prompt, storing nothing.
C7_FieldBounds ==
    [][ \A after \in {songs'} :
        /\ ( pc = "start" /\ ~file.exists ) => AllInBounds(after)
        /\ ( pc # "start" /\ AllInBounds(songs) ) => AllInBounds(after)
        /\ ( /\ Typed
             /\ \/ pc \in TextPrompts /\ BadText(inp')
                \/ pc \in IntPrompts /\ BadInt(inp') )
           => ( /\ pc' = pc
                /\ after = songs
                /\ file' = file
                /\ title' = title
                /\ artist' = artist ) ]_vars

C7_Witness ==
    /\ pc = "add_plays"
    /\ out.msg = "need_int"
    /\ Len(title) = MAX_TITLE_LEN
    /\ \E w7 \in 1..Len(songs) : songs[w7].plays = 0
    /\ AllInBounds(songs)

\* C8: an interrupt at a prompt ends the program and changes neither the
\* list nor the file, and no step that leaves the program inside add, edit
\* or delete changes them, so a partly entered operation has no effect.
C8_InterruptClean ==
    [][ /\ out'.msg = "terminated"
           => ( /\ pc \in Prompts
                /\ pc' = "exited"
                /\ songs' = songs
                /\ file' = file
                /\ FileHolds(file, songs) )
        /\ ( pc \in Prompts /\ pc' \in Prompts \ {"menu"} )
           => ( songs' = songs /\ file' = file ) ]_vars

C8_Witness ==
    /\ pc = "exited"
    /\ out.msg = "terminated"
    /\ title # <<>>
    /\ artist # <<>>
    /\ FileHolds(file, songs)

\* C9: a delete that matches removes exactly the first song whose key
\* equals the input ignoring letter case; the list is shorter by one, the
\* other records keep values and order, and with unique keys before the
\* delete the key matches nothing afterwards.
C9_DeleteFirstMatch ==
    [][ ( /\ pc = "del_artist"
          /\ Typed
          /\ ~BadText(inp')
          /\ Matches(songs, title, strip(inp')) # {} )
        => \A after \in {songs'} : \A typed \in {strip(inp')} :
           LET gone == FirstMatch(songs, title, typed)
           IN  /\ out'.msg = "deleted"
               /\ pc' = "menu"
               /\ Len(after) = Len(songs) - 1
               /\ \A r9 \in 1..Len(after) :
                    after[r9] = IF r9 < gone THEN songs[r9] ELSE songs[r9 + 1]
               /\ UniqueKeys(songs) => Matches(after, title, typed) = {} ]_vars

C9_Witness ==
    /\ pc = "menu"
    /\ out.msg = "deleted"
    /\ Len(songs) = 2
    /\ songs[2].title = lower(BadGuy)

\* C10: a successful edit sets the plays of the first matching song to the
\* entered value and changes nothing else: title and artist of that song
\* as stored, its position, the length of the list and every other song.
C10_EditOnlyPlays ==
    [][ ( pc = "edit_plays" /\ Typed /\ ~BadInt(inp') )
        => \A after \in {songs'} :
           LET hit == FirstMatch(songs, title, artist)
           IN  /\ out'.msg = "edited"
               /\ pc' = "menu"
               /\ Len(after) = Len(songs)
               /\ after[hit].plays = int(strip(inp'))
               /\ after[hit].title = songs[hit].title
               /\ after[hit].artist = songs[hit].artist
               /\ \A r10 \in 1..Len(songs) :
                    r10 # hit => after[r10] = songs[r10] ]_vars

C10_Witness ==
    /\ pc = "menu"
    /\ out.msg = "edited"
    /\ Len(songs) >= 3
    /\ songs[2].title = BadGuy
    /\ songs[2].plays = 7
    /\ songs[3].title = lower(BadGuy)
    /\ songs[3].plays = 0

====
